---- MODULE Spec2Model ----
(***************************************************************************)
(* Model of the libvpx-vp9 video encoder plugin                            *)
(* (source/encoder_video_libvpx_vp9/plugin.py).                            *)
(*                                                                         *)
(* Python strings are modelled as sequences of pieces: a codec name is the *)
(* sequence of its characters, a command-line argument or a path is the    *)
(* sequence of the pieces it is formatted from ("-c:v:{}".format(1) is     *)
(* <<"-c:v:", "1">>; "movie.mkv" is <<"movie", ".", "mkv">>, where a piece *)
(* other than "." and "/" stands for a run of ordinary characters).        *)
(***************************************************************************)
EXTENDS Naturals, Sequences, FiniteSets, TLC

VARIABLES
    store,         \* the plugin's configuration store (Settings.settings as saved by the host)
    probe,         \* the probed streams of the file under evaluation
    test_in,       \* data passed to on_library_management_file_test
    test_out,      \* data as on_library_management_file_test left it
    test_pc,       \* "ready" | "returned" | "raised"
    worker_in,     \* data passed to on_worker_process
    worker_out,    \* data as on_worker_process left it
    worker_pc,     \* "ready" | "pass1" | "pass2" | "returned" | "raised"
    mapper,        \* the StreamMapper of the running/last on_worker_process call
    cursor,        \* position of the mapper's loop over the streams (stepwise worker)
    changes        \* number of writes another actor made to the configuration store

vars == <<store, probe, test_in, test_out, test_pc,
          worker_in, worker_out, worker_pc, mapper, cursor, changes>>

----------------------------------------------------------------------------
(* Bounds *)

MaxStreams == 2

MaxConfigChanges == 1

MaxPlanStreams == 3

----------------------------------------------------------------------------
(* Strings *)

\* str.lower() on the characters that occur in the modelled codec names
LowerChar(c) ==
    CASE c = "V" -> "v"
      [] c = "P" -> "p"
      [] c = "H" -> "h"
      [] OTHER   -> c

Lower(s) == [i \in 1..Len(s) |-> LowerChar(s[i])]

\* "{}".format(n) for a small non-negative integer
Str(n) ==
    CASE n = 0 -> "0"
      [] n = 1 -> "1"
      [] n = 2 -> "2"
      [] n = 3 -> "3"
      [] n = 4 -> "4"
      [] OTHER -> "9"

\* "<prefix>{}".format(n)
Format(prefix, n) == <<prefix, Str(n)>>

\* a literal string or a settings value used as one argument
Arg(s) == <<s>>

\* str.rfind for a one-character needle, shifted by one (0 = not found)
RFind(p, c) ==
    IF \E i \in 1..Len(p) : p[i] = c
    THEN CHOOSE i \in 1..Len(p) : p[i] = c /\ \A j \in (i+1)..Len(p) : p[j] # c
    ELSE 0

\* os.path.splitext (posixpath): the extension starts at the last dot of the
\* last path component; leading dots of that component do not start one
splitext(p) ==
    LET sepIndex == RFind(p, "/")
        dotIndex == RFind(p, ".")
    IN  IF dotIndex > sepIndex
           /\ \E k \in (sepIndex + 1)..(dotIndex - 1) : p[k] # "."
        THEN <<SubSeq(p, 1, dotIndex - 1), SubSeq(p, dotIndex, Len(p))>>
        ELSE <<p, <<>>>>

----------------------------------------------------------------------------
(* Settings *)

SettingKeys == {"mode", "crf", "bitrate", "deadline", "cpu-used"}

MkSettings(mode, crf, bitrate, deadline, cpu) ==
    [k \in SettingKeys |->
        CASE k = "mode"     -> mode
          [] k = "crf"      -> crf
          [] k = "bitrate"  -> bitrate
          [] k = "deadline" -> deadline
          [] OTHER          -> cpu]

\* Settings.settings: the defaults
DefaultSettings == MkSettings("average_bitrate", "31", "2M", "good", "0")

\* the select options of form_settings["mode"]
Modes == {"average_bitrate", "constant_quality", "constrained_quality",
          "constant_bitrate", "lossless"}

\* mode values the store can hold that are no select option: unset, unrecognized
UnknownModes == {"", "two_pass"}

\* configurations the store is drawn from
Configs ==
    {MkSettings(m, "31", "2M", "good", "0") : m \in Modes \cup UnknownModes}
    \cup {MkSettings(m, "30", "1M", "best", "2") : m \in Modes \cup UnknownModes}
    \cup {MkSettings("constant_quality", "30", "2M", "good", "2")}

\* Settings(): the settings object reads the configuration store
Settings == store

\* settings.get_setting(key)
get_setting(settings, key) == settings[key]

----------------------------------------------------------------------------
(* Probe data *)

VP9 == <<"v", "p", "9">>

\* codec names a probe reports for a video stream
VideoCodecNames == {<<"h", "2", "6", "4">>, VP9, <<"V", "P", "9">>}

\* the stream_info dicts a probe can report at stream index i; a dict may lack
\* the codec_name key
StreamInfos(i) ==
    {[index |-> i, codec_type |-> "video", codec_name |-> c] : c \in VideoCodecNames}
    \cup {[index |-> i, codec_type |-> "video"]}
    \cup {[index |-> i, codec_type |-> "audio", codec_name |-> <<"a", "a", "c">>]}
    \cup {[index |-> i, codec_type |-> "subtitle"]}

\* the orders in which n streams can be listed
Orders(n) == {o \in [1..n -> 0..(n - 1)] : \A i, j \in 1..n : o[i] = o[j] => i = j}

\* probes of files with n streams, listed in any order
ProbesOf(n) ==
    UNION {{p \in [1..n -> UNION {StreamInfos(i) : i \in 0..(n - 1)}] :
               \A k \in 1..n : p[k].index = o[k]} : o \in Orders(n)}

ProbesUpTo(max) == UNION {ProbesOf(n) : n \in 0..max}

Probes == ProbesUpTo(MaxStreams)

----------------------------------------------------------------------------
(* StreamMapper *)

Returns(v) == [raised |-> FALSE, value |-> v]

Raises == [raised |-> TRUE, value |-> FALSE]

\* test_stream_needs_processing comparing the codec name as probed, without
\* lower()
test_stream_needs_processing_case_sensitive(stream_info) ==
    IF "codec_name" \notin DOMAIN stream_info
    THEN Raises
    ELSE IF stream_info.codec_name \in {VP9}
         THEN Returns(FALSE)
         ELSE Returns(TRUE)

\* StreamMapper.test_stream_needs_processing: stream_info.get('codec_name') is
\* None when the key is absent, and None.lower() raises AttributeError
test_stream_needs_processing(stream_info) ==
    IF "codec_name" \notin DOMAIN stream_info
    THEN Raises
    ELSE IF Lower(stream_info.codec_name) \in {VP9}
         THEN Returns(FALSE)
         ELSE Returns(TRUE)

\* the common arguments with the deadline fixed to 'good' instead of read
\* from the settings
common_encoding_fixed_deadline(settings) ==
    << Arg("-threads"), Arg("8"),
       Arg("-row-mt"), Arg("1"),
       Arg("-deadline"), Arg("good"),
       Arg("-cpu-used"), Arg(get_setting(settings, "cpu-used")) >>

\* the arguments every recognized mode ends with
common_encoding(settings) ==
    << Arg("-threads"), Arg("8"),
       Arg("-row-mt"), Arg("1"),
       Arg("-deadline"), Arg(get_setting(settings, "deadline")),
       Arg("-cpu-used"), Arg(get_setting(settings, "cpu-used")) >>

\* StreamMapper.custom_stream_mapping: the stream_encoding list built from a
\* settings object
stream_encoding_of(settings, stream_id) ==
    LET encoder_mode == get_setting(settings, "mode")
        codec == << Format("-c:v:", stream_id), Arg("libvpx-vp9") >>
    IN  CASE encoder_mode = "average_bitrate" ->
                codec
                \o << Format("-b:v:", stream_id), Arg(get_setting(settings, "bitrate")) >>
                \o common_encoding(settings)
          [] encoder_mode = "constant_quality" ->
                codec
                \o << Arg("-crf"), Arg(get_setting(settings, "crf")),
                      Format("-b:v:", stream_id), Arg("0") >>
                \o common_encoding(settings)
          [] encoder_mode = "constrained_quality" ->
                codec
                \o << Arg("-crf"), Arg(get_setting(settings, "crf")),
                      Format("-b:v:", stream_id), Arg(get_setting(settings, "bitrate")) >>
                \o common_encoding(settings)
          [] encoder_mode = "constant_bitrate" ->
                codec
                \o << Arg("-minrate"), Arg(get_setting(settings, "bitrate")),
                      Arg("-maxrate"), Arg(get_setting(settings, "bitrate")),
                      Format("-b:v:", stream_id), Arg(get_setting(settings, "bitrate")) >>
                \o common_encoding(settings)
          [] encoder_mode = "lossless" ->
                codec
                \o << Arg("-lossless"), Arg("1") >>
                \o common_encoding(settings)
          [] OTHER ->
                \* Default settings for 'Average Bitrate' encoder mode
                << Format("-c:v:", stream_id), Arg("libvpx-vp9"), Arg("-b:v"), Arg("2M") >>

\* StreamMapper.custom_stream_mapping
custom_stream_mapping(stream_info, stream_id) ==
    LET settings == Settings
    IN  [stream_mapping  |-> << Arg("-map"), Format("0:v:", stream_id) >>,
         stream_encoding |-> stream_encoding_of(settings, stream_id)]

\* FfmpegStreamMapper.__init__: nothing mapped yet
NewMapper ==
    [stream_mapping |-> <<>>, stream_encoding |-> <<>>,
     found |-> FALSE, raised |-> FALSE]

RECURSIVE InIndexOrder(_)
\* the streams in original stream-index order
InIndexOrder(streams) ==
    IF streams = <<>>
    THEN <<>>
    ELSE LET i == CHOOSE i \in 1..Len(streams) :
                     \A j \in 1..Len(streams) : streams[i].index <= streams[j].index
         IN  <<streams[i]>>
             \o InIndexOrder(SubSeq(streams, 1, i - 1) \o SubSeq(streams, i + 1, Len(streams)))

\* one iteration of the mapper's loop over the streams: a stream of the
\* processed type that needs processing gets its fragment appended
map_stream(m, stream_info) ==
    IF m.raised \/ stream_info.codec_type # "video"
    THEN m
    ELSE LET needs == test_stream_needs_processing(stream_info)
         IN  IF needs.raised
             THEN [m EXCEPT !.raised = TRUE]
             ELSE IF ~needs.value
                  THEN m
                  ELSE LET mapping == custom_stream_mapping(stream_info, stream_info.index)
                       IN  [m EXCEPT !.found = TRUE,
                                     !.stream_mapping  = @ \o mapping.stream_mapping,
                                     !.stream_encoding = @ \o mapping.stream_encoding]

RECURSIVE map_streams(_, _)
map_streams(m, streams) ==
    IF streams = <<>>
    THEN m
    ELSE map_streams(map_stream(m, Head(streams)), Tail(streams))

\* FfmpegStreamMapper.streams_need_processing on a probed file: the plan is
\* built afresh on every call
streams_need_processing(streams) == map_streams(NewMapper, InIndexOrder(streams))

get_stream_mapping(m) == m.stream_mapping

get_stream_encoding(m) == m.stream_encoding

----------------------------------------------------------------------------
(* Host data *)

\* a call not made yet has no data
NoData == <<>>

LibraryPath == <<"lib", "/", "movie", ".", "mkv">>

\* data the host passes to on_library_management_file_test
TestData ==
    {[path |-> LibraryPath, issues |-> <<>>, add_file_to_pending_tasks |-> a] :
        a \in BOOLEAN}

\* source files a worker is given
FilesIn ==
    { <<"lib", "/", "movie", ".", "mkv">>,
      <<"lib", ".", "d", "/", "movie">>,
      <<"lib", "/", ".", "hidden">> }

\* output targets a worker is given
FilesOut ==
    { <<"cache", "/", "movie", ".", "mp4">>,
      <<"cache", ".", "d", "/", "movie">> }

\* data the host passes to on_worker_process; the host's default is to run
\* its own FFMPEG command
WorkerData ==
    {[exec_ffmpeg |-> TRUE,
      ffmpeg_args |-> << Arg("-i"), i, Arg("-y"), o >>,
      file_in     |-> i,
      file_out    |-> o] : i \in FilesIn, o \in FilesOut}

----------------------------------------------------------------------------
(* Runner functions *)

\* the file out taking the extension of split_file_out instead of split_file_in
output_file_remuxed(file_in, file_out) ==
    LET split_file_in  == splitext(file_in)
        split_file_out == splitext(file_out)
    IN  split_file_out[1] \o split_file_out[2]

\* on_worker_process: the file out keeps the container of the file in
output_file(file_in, file_out) ==
    LET split_file_in  == splitext(file_in)
        split_file_out == splitext(file_out)
    IN  split_file_out[1] \o split_file_in[2]

\* the ffmpeg args with the encoding args added before the stream mapping
input_args_encoding_first(data, m) ==
    << Arg("-i"), data.file_in, Arg("-hide_banner"), Arg("-loglevel"), Arg("info") >>
    \o get_stream_encoding(m)
    \o get_stream_mapping(m)

\* on_worker_process: the ffmpeg args before the output file is appended
input_args(data, m) ==
    << Arg("-i"), data.file_in, Arg("-hide_banner"), Arg("-loglevel"), Arg("info") >>
    \o get_stream_mapping(m)
    \o get_stream_encoding(m)

\* on_worker_process, the branch taken when streams need processing
build_command(data, m) ==
    LET out == output_file(data.file_in, data.file_out)
    IN  [data EXCEPT !.exec_ffmpeg = TRUE,
                     !.file_out    = out,
                     !.ffmpeg_args = input_args(data, m) \o << Arg("-y"), out >>]

\* on_library_management_file_test(data)
on_library_management_file_test ==
    /\ test_pc = "ready"
    /\ \E data \in TestData :
          LET m == streams_need_processing(probe)
          IN  /\ test_in' = data
              /\ test_pc' = IF m.raised THEN "raised" ELSE "returned"
              /\ test_out' = IF ~m.raised /\ m.found
                             THEN [data EXCEPT !.add_file_to_pending_tasks = TRUE]
                             ELSE data
    /\ UNCHANGED <<store, probe, worker_in, worker_out, worker_pc, mapper,
                   cursor, changes>>

\* on_worker_process(data), run to completion
on_worker_process ==
    /\ test_pc # "ready"
    /\ worker_pc = "ready"
    /\ \E data \in WorkerData :
          LET cleared == [data EXCEPT !.exec_ffmpeg = FALSE]
              first   == streams_need_processing(probe)
              second  == streams_need_processing(probe)
          IN  /\ worker_in' = data
              /\ IF first.raised
                 THEN /\ worker_pc' = "raised"
                      /\ mapper' = first
                      /\ worker_out' = cleared
                 ELSE IF ~first.found
                 THEN /\ worker_pc' = "returned"
                      /\ mapper' = first
                      /\ worker_out' = cleared
                 ELSE /\ worker_pc' = IF second.raised THEN "raised" ELSE "returned"
                      /\ mapper' = second
                      /\ worker_out' = IF second.raised
                                       THEN cleared
                                       ELSE build_command(cleared, second)
    /\ UNCHANGED <<store, probe, test_in, test_out, test_pc, cursor, changes>>

Init ==
    /\ store \in Configs
    /\ probe \in Probes
    /\ test_in = NoData
    /\ test_out = NoData
    /\ test_pc = "ready"
    /\ worker_in = NoData
    /\ worker_out = NoData
    /\ worker_pc = "ready"
    /\ mapper = NewMapper
    /\ cursor = 0
    /\ changes = 0

Next ==
    \/ on_library_management_file_test
    \/ on_worker_process

Spec == Init /\ [][Next]_vars

----------------------------------------------------------------------------
(* Plans of longer files under the default settings *)

InitPlan ==
    /\ store = DefaultSettings
    /\ probe \in ProbesUpTo(MaxPlanStreams)
    /\ test_in = NoData
    /\ test_out = NoData
    /\ test_pc = "ready"
    /\ worker_in = NoData
    /\ worker_out = NoData
    /\ worker_pc = "ready"
    /\ mapper = NewMapper
    /\ cursor = 0
    /\ changes = 0

SpecPlan == InitPlan /\ [][Next]_vars

----------------------------------------------------------------------------
(* on_worker_process step by step, with the configuration store written *)
(* by another actor while the worker runs                               *)

\* on_worker_process up to the first call of streams_need_processing
worker_begin ==
    /\ worker_pc = "ready"
    /\ \E data \in WorkerData :
          /\ worker_in' = data
          /\ worker_out' = [data EXCEPT !.exec_ffmpeg = FALSE]
    /\ mapper' = NewMapper
    /\ cursor' = 1
    /\ worker_pc' = "pass1"
    /\ UNCHANGED <<store, probe, test_in, test_out, test_pc, changes>>

\* one iteration of the loop of streams_need_processing; custom_stream_mapping
\* constructs its Settings() in this iteration
worker_map ==
    /\ worker_pc \in {"pass1", "pass2"}
    /\ cursor <= Len(probe)
    /\ LET m == map_stream(mapper, InIndexOrder(probe)[cursor])
       IN  /\ mapper' = m
           /\ worker_pc' = IF m.raised THEN "raised" ELSE worker_pc
    /\ cursor' = cursor + 1
    /\ UNCHANGED <<store, probe, test_in, test_out, test_pc, worker_in, worker_out,
                   changes>>

\* the first streams_need_processing returned False
worker_skip ==
    /\ worker_pc = "pass1"
    /\ cursor > Len(probe)
    /\ ~mapper.found
    /\ worker_pc' = "returned"
    /\ UNCHANGED <<store, probe, test_in, test_out, test_pc, worker_in, worker_out,
                   mapper, cursor, changes>>

\* the first streams_need_processing returned True: it is called again
worker_again ==
    /\ worker_pc = "pass1"
    /\ cursor > Len(probe)
    /\ mapper.found
    /\ mapper' = NewMapper
    /\ cursor' = 1
    /\ worker_pc' = "pass2"
    /\ UNCHANGED <<store, probe, test_in, test_out, test_pc, worker_in, worker_out,
                   changes>>

\* the rest of the branch: the command is built from the mapper
worker_build ==
    /\ worker_pc = "pass2"
    /\ cursor > Len(probe)
    /\ worker_out' = build_command(worker_out, mapper)
    /\ worker_pc' = "returned"
    /\ UNCHANGED <<store, probe, test_in, test_out, test_pc, worker_in, mapper,
                   cursor, changes>>

\* the host saves other plugin settings
write_settings ==
    /\ changes < MaxConfigChanges
    /\ worker_pc \in {"ready", "pass1", "pass2"}
    /\ \E c \in Configs \ {store} : store' = c
    /\ changes' = changes + 1
    /\ UNCHANGED <<probe, test_in, test_out, test_pc, worker_in, worker_out,
                   worker_pc, mapper, cursor>>

InitSteps ==
    /\ store = DefaultSettings
    /\ probe \in Probes
    /\ test_in = NoData
    /\ test_out = NoData
    /\ test_pc = "ready"
    /\ worker_in = NoData
    /\ worker_out = NoData
    /\ worker_pc = "ready"
    /\ mapper = NewMapper
    /\ cursor = 0
    /\ changes = 0

NextSteps ==
    \/ worker_begin
    \/ worker_map
    \/ worker_skip
    \/ worker_again
    \/ worker_build
    \/ write_settings

SpecSteps == InitSteps /\ [][NextSteps]_vars

----------------------------------------------------------------------------
(* What the specification expects, stated without the plugin's operators *)

\* the spellings of 'vp9' in any letter case
Vp9AnyCase == {<<v, p, "9">> : v \in {"v", "V"}, p \in {"p", "P"}}

HasCodecName(stream) == "codec_name" \in DOMAIN stream

\* a video stream whose codec name, compared case-insensitively, is not 'vp9'
\* (a missing codec name counts as not 'vp9')
ShouldProcess(stream) ==
    /\ stream.codec_type = "video"
    /\ ~(HasCodecName(stream) /\ stream.codec_name \in Vp9AnyCase)

RECURSIVE Ascending(_)
\* the members of a set of numbers in ascending order
Ascending(S) ==
    IF S = {}
    THEN <<>>
    ELSE LET least == CHOOSE x \in S : \A y \in S : x <= y
         IN  <<least>> \o Ascending(S \ {least})

\* the indices of the streams that should be processed, ascending
ExpectedIds == Ascending({probe[k].index : k \in {j \in 1..Len(probe) : ShouldProcess(probe[j])}})

RECURSIVE Concat(_)
Concat(lists) == IF lists = <<>> THEN <<>> ELSE Head(lists) \o Concat(Tail(lists))

Digits == <<"0", "1", "2", "3", "4">>

PerStream(flag, i) == <<flag, Digits[i + 1]>>

\* ['-map', '0:v:i'] for every expected stream
ExpectedMapping ==
    Concat([k \in 1..Len(ExpectedIds) |-> << <<"-map">>, PerStream("0:v:", ExpectedIds[k]) >>])

\* the parameter set of each of the five modes
ModeParameters(c, i) ==
    CASE c["mode"] = "average_bitrate" ->
            << PerStream("-b:v:", i), <<c["bitrate"]>> >>
      [] c["mode"] = "constant_quality" ->
            << <<"-crf">>, <<c["crf"]>>, PerStream("-b:v:", i), <<"0">> >>
      [] c["mode"] = "constrained_quality" ->
            << <<"-crf">>, <<c["crf"]>>, PerStream("-b:v:", i), <<c["bitrate"]>> >>
      [] c["mode"] = "constant_bitrate" ->
            << <<"-minrate">>, <<c["bitrate"]>>, <<"-maxrate">>, <<c["bitrate"]>>,
               PerStream("-b:v:", i), <<c["bitrate"]>> >>
      [] c["mode"] = "lossless" ->
            << <<"-lossless">>, <<"1">> >>

ExpectedTail(c) ==
    << <<"-threads">>, <<"8">>, <<"-row-mt">>, <<"1">>,
       <<"-deadline">>, <<c["deadline"]>>, <<"-cpu-used">>, <<c["cpu-used"]>> >>

ExpectedFragment(c, i) ==
    << PerStream("-c:v:", i), <<"libvpx-vp9">> >> \o ModeParameters(c, i) \o ExpectedTail(c)

ExpectedEncoding(c) ==
    Concat([k \in 1..Len(ExpectedIds) |-> ExpectedFragment(c, ExpectedIds[k])])

\* the average_bitrate shape with the hardcoded fallback bitrate
FallbackFragment(c, i) ==
    << PerStream("-c:v:", i), <<"libvpx-vp9">>, PerStream("-b:v:", i), <<"2M">> >>
    \o ExpectedTail(c)

Flags(args) == {args[k][1] : k \in 1..Len(args)}

\* root and extension of the modelled paths, as os.path.splitext gives them
ExpectedRoot(p) ==
    CASE p = <<"lib", "/", "movie", ".", "mkv">>   -> <<"lib", "/", "movie">>
      [] p = <<"cache", "/", "movie", ".", "mp4">> -> <<"cache", "/", "movie">>
      [] OTHER -> p

ExpectedExt(p) ==
    CASE p = <<"lib", "/", "movie", ".", "mkv">>   -> <<".", "mkv">>
      [] p = <<"cache", "/", "movie", ".", "mp4">> -> <<".", "mp4">>
      [] OTHER -> <<>>

WorkerReturned == worker_pc = "returned"

PlanBuilt == worker_pc = "returned" /\ worker_out.exec_ffmpeg

AllVideoIsVp9 ==
    \A k \in 1..Len(probe) :
        probe[k].codec_type = "video" =>
            HasCodecName(probe[k]) /\ probe[k].codec_name \in Vp9AnyCase

----------------------------------------------------------------------------
(* Claims *)

\* C1: for a file whose video streams all have codec name 'vp9' in any letter
\* case, the file test returns without marking the file (the flag keeps its
\* incoming value) and the worker returns with exec_ffmpeg = False, no stream
\* mapped and the ffmpeg args and file out it was given.
C1_Idempotence ==
    AllVideoIsVp9 =>
        /\ test_pc # "ready" =>
              /\ test_pc = "returned"
              /\ test_out.add_file_to_pending_tasks = test_in.add_file_to_pending_tasks
        /\ worker_pc # "ready" =>
              /\ worker_pc = "returned"
              /\ worker_out.exec_ffmpeg = FALSE
              /\ mapper.stream_mapping = <<>>
              /\ mapper.stream_encoding = <<>>
              /\ worker_out.ffmpeg_args = worker_in.ffmpeg_args
              /\ worker_out.file_out = worker_in.file_out

\* a worker returned for a two-stream file holding an upper-case VP9 video
\* stream, with the host's exec_ffmpeg = True coming in and a false flag
\* coming into the file test
C1_Witness ==
    /\ WorkerReturned
    /\ AllVideoIsVp9
    /\ Len(probe) = 2
    /\ \E k \in 1..2 : probe[k] = [index |-> 0, codec_type |-> "video",
                                   codec_name |-> <<"V", "P", "9">>]
    /\ \E k \in 1..2 : probe[k].codec_type = "video" /\ probe[k].codec_name = VP9
    /\ worker_in.exec_ffmpeg = TRUE
    /\ test_in.add_file_to_pending_tasks = FALSE

\* C2: the streams selected for processing are exactly the video streams whose
\* codec name, compared case-insensitively, is not 'vp9': every run of the
\* worker returns, having mapped exactly those streams.
C2_NeedsProcessing ==
    worker_pc # "ready" =>
        /\ worker_pc = "returned"
        /\ mapper.stream_mapping = ExpectedMapping

\* C3: a file with a video stream that has no codec name is selected for
\* re-encoding and no error is raised: the file test returns with the file
\* marked, the worker returns with exec_ffmpeg = True.
C3_MissingCodecName ==
    (\E k \in 1..Len(probe) :
        probe[k].codec_type = "video" /\ ~HasCodecName(probe[k])) =>
        /\ test_pc # "ready" =>
              test_pc = "returned" /\ test_out.add_file_to_pending_tasks
        /\ worker_pc # "ready" =>
              worker_pc = "returned" /\ worker_out.exec_ffmpeg

\* C4: under each of the five modes a built plan maps ['-map', '0:v:i'] for
\* every processed stream i and encodes it with exactly the mode's parameter
\* set in the fixed order, followed by -threads 8 -row-mt 1 -deadline
\* <deadline> -cpu-used <cpu-used>; a lossless fragment has no crf, bitrate,
\* minrate or maxrate argument; constant_quality, crf 30, good, 2 on stream 0
\* gives the list the specification quotes.
C4_ModeArguments ==
    (PlanBuilt /\ store["mode"] \in Modes) =>
        /\ mapper.stream_mapping = ExpectedMapping
        /\ mapper.stream_encoding = ExpectedEncoding(store)
        /\ store["mode"] = "lossless" =>
              Flags(mapper.stream_encoding) \cap
                  {"-crf", "-b:v", "-b:v:", "-minrate", "-maxrate"} = {}
        /\ (/\ store = MkSettings("constant_quality", "30", "2M", "good", "2")
            /\ ExpectedIds = <<0>>) =>
              mapper.stream_encoding =
                  << <<"-c:v:", "0">>, <<"libvpx-vp9">>, <<"-crf">>, <<"30">>,
                     <<"-b:v:", "0">>, <<"0">>, <<"-threads">>, <<"8">>,
                     <<"-row-mt">>, <<"1">>, <<"-deadline">>, <<"good">>,
                     <<"-cpu-used">>, <<"2">> >>

\* the end-to-end scenario of the specification: one h264 video stream at
\* index 0 under constant_quality, crf 30, good, 2, and a plan was built
C4_Witness ==
    /\ PlanBuilt
    /\ store = MkSettings("constant_quality", "30", "2M", "good", "2")
    /\ probe = << [index |-> 0, codec_type |-> "video",
                   codec_name |-> <<"h", "2", "6", "4">>] >>

\* C5: under an unset or unrecognized mode a built plan encodes every
\* processed stream with the average_bitrate sequence, the bitrate value
\* being the hardcoded fallback.
C5_FallbackShape ==
    (PlanBuilt /\ store["mode"] \notin Modes) =>
        mapper.stream_encoding =
            Concat([k \in 1..Len(ExpectedIds) |-> FallbackFragment(store, ExpectedIds[k])])

\* C6: whenever a plan is built, the file out is the root of the output path
\* the worker was given followed by the extension of the file in, and it is
\* the last argument of the command, after '-y'.
C6_OutputPath ==
    PlanBuilt =>
        /\ worker_out.file_out =
              ExpectedRoot(worker_in.file_out) \o ExpectedExt(worker_in.file_in)
        /\ worker_out.ffmpeg_args[Len(worker_out.ffmpeg_args)] = worker_out.file_out
        /\ worker_out.ffmpeg_args[Len(worker_out.ffmpeg_args) - 1] = <<"-y">>
        /\ worker_out.file_in = worker_in.file_in

\* container preservation: file in movie.mkv, output target movie.mp4, and
\* the plan writes movie.mkv
C6_Witness ==
    /\ PlanBuilt
    /\ worker_in.file_in = <<"lib", "/", "movie", ".", "mkv">>
    /\ worker_in.file_out = <<"cache", "/", "movie", ".", "mp4">>
    /\ worker_out.file_out = <<"cache", "/", "movie", ".", "mkv">>

\* C7: when the file in or the output path has no extension, no plan is
\* produced: the worker does not leave exec_ffmpeg = True.
C7_FailsClosed ==
    (/\ worker_pc # "ready"
     /\ \/ ExpectedExt(worker_in.file_in) = <<>>
        \/ ExpectedExt(worker_in.file_out) = <<>>) =>
        worker_out.exec_ffmpeg = FALSE

C9_TaskGate ==
    test_pc # "ready" =>
        /\ test_out.path = test_in.path
        /\ test_out.issues = test_in.issues
        /\ test_out.add_file_to_pending_tasks =
              (test_in.add_file_to_pending_tasks \/ ExpectedIds # <<>>)
        /\ worker_pc # "ready" =>
              (worker_out.exec_ffmpeg <=> ExpectedIds # <<>>)

\* C10: all fragments of a built plan come from one settings snapshot: some
\* configuration yields the whole stream_encoding of the plan.
C10_OneSnapshot ==
    PlanBuilt =>
        \E c \in Configs :
            mapper.stream_encoding =
                Concat([k \in 1..Len(ExpectedIds) |-> stream_encoding_of(c, ExpectedIds[k])])

====
